---- MODULE Spec2Model ----
(***************************************************************************)
(* Proxy pool (utils/proxy_manager.py), the download loops                 *)
(* (core/audio_processor.py download_episode, main.py download_with_retry) *)
(* of the podcast pipeline, as a state machine.                            *)
(***************************************************************************)
EXTENDS Naturals, Sequences, FiniteSets, TLC

\* ---------------------------------------------------------------- bounds
MaxCandidates == 3      \* longest candidate list (lines of the proxy file)
MaxTest == 2            \* largest explicit max_test of a direct warm-up call
MaxEpisodes == 2        \* rows of the episodes table
MaxPipeCandidates == 2  \* longest candidate list in the pipeline specification
MaxFairEpisodes == 1    \* rows of the episodes table where termination is checked
MaxLines == 2           \* lines of the proxy file
MaxLineLen == 2         \* characters of a line of the proxy file

\* ------------------------------------------------------ program constants
max_retries == 3            \* download_with_retry(max_retries=3)
max_proxy_retries == 3      \* download_episode(max_proxy_retries=3)
FallbackBudget == 20        \* get_proxy: find_working_proxies(max_test=20)
MAX_PROXIES_TO_TEST == 20   \* Config.MAX_PROXIES_TO_TEST default
BackoffUnit == 10           \* wait_time = (attempt + 1) * 10
RetryTotal == 2             \* Retry(total=2, status_forcelist=[429, 500, 502, 503, 504])

None == 0
\* addresses; the code only compares them for equality
Proxy == 1..MaxCandidates
\* repeated direct warm-ups append to working_proxies without limit: the
\* direct call is offered only while the list stays this short
MaxWorking == MaxCandidates

TransientKinds == {"Timeout", "ConnectionError", "ProxyError"}
\* RetryError: the status retries of the adapter are used up
OtherKinds == {"HTTPStatusError", "RetryError", "Unexpected"}

VARIABLES
  proxies,          \* ProxyManager.proxies: the candidate list
  working_proxies,  \* ProxyManager.working_proxies: a list
  failed_proxies,   \* ProxyManager.failed_proxies: a set
  current_proxy,    \* ProxyManager.current_proxy
  USE_PROXY,        \* Config.USE_PROXY
  reachable,        \* environment: a fetch made without a proxy succeeds
  pc,               \* "idle", "called", "inner", "fetch", "except", "done"
  api,              \* the last direct call on the pool: [op, arg, ret]
  attempt,          \* download_with_retry: attempt
  proxy_attempt,    \* download_episode: proxy_attempt
  dl_proxies,       \* download_episode: the local `proxies` (None or an address)
  result,           \* what download_with_retry returned: "none", "path", "failed"
  fetches,          \* session.get calls made by the current download
  last,             \* the latest fetch of the current download: [proxy, kind, marked]
  waits,            \* the time.sleep durations of the current download, in order
  empty_at_start,   \* working_proxies was empty when the download started
  probed,           \* the addresses test_proxy was called on by the latest step, in order
  tries,            \* responses the adapter retried within the session.get at hand
                    \* (kept with the response of a successful one)
  session,          \* requests sessions: [open: how many are open, cur: the current one is open]
  db,               \* the episodes table: row id -> [published, audio_url]
  episode_id,       \* main_pipeline: id of the selected episode, 0 before one is selected
  audio_file,       \* main_pipeline: what download_with_retry returned
  transcript,       \* main_pipeline: what transcribe_audio returned
  summary,          \* main_pipeline: what create_summary returned
  reasons,          \* reasons mark_episode_as_failed logged in the latest run
  outcome,          \* how the latest run of main_pipeline ended, "running" while it runs
  tried,            \* the providers the latest create_summary called, in order: [provider, ret]
  rpc,              \* overlapping runs: where each thread's run of main_pipeline stands
  repisode,         \* overlapping runs: each thread's episode_id, 0 when it has none
  tpc,              \* concurrent downloads: where each thread's download_episode stands
  tproxy,           \* concurrent downloads: each thread's local `proxies` (None or an address)
  tattempt,         \* concurrent downloads: each thread's proxy_attempt
  targ,             \* concurrent downloads: the argument of the thread's mark_proxy_as_failed
  proxy_file        \* the proxy file: [state: "missing", "unread", "closed"; lines: its
                    \* lines as text until load_proxies has read them]

poolvars == <<working_proxies, failed_proxies, current_proxy>>
dlvars == <<attempt, proxy_attempt, dl_proxies, result, fetches, last, waits, empty_at_start,
            tries, session>>
pipevars == <<db, episode_id, audio_file, transcript, summary, reasons, outcome, tried>>
\* the threads that call main_pipeline: the main thread (the run at start-up)
\* and the scheduler's worker (the scheduled runs, max_instances=1)
Threads == {"main", "scheduler"}

dthreadvars == <<tpc, tproxy, tattempt, targ>>
threadvars == <<rpc, repisode, dthreadvars>>

vars == <<proxies, working_proxies, failed_proxies, current_proxy, USE_PROXY, reachable,
          pc, api, attempt, proxy_attempt, dl_proxies, result, fetches, last, waits,
          empty_at_start, probed, tries, session,
          db, episode_id, audio_file, transcript, summary, reasons, outcome, tried,
          rpc, repisode, tpc, tproxy, tattempt, targ, proxy_file>>

\* ------------------------------------------------------------ list helpers
InList(x, s) == \E i \in 1..Len(s) : s[i] = x

Elems(s) == {s[i] : i \in 1..Len(s)}

RECURSIVE FirstIndex(_, _, _)
FirstIndex(x, s, i) == IF s[i] = x THEN i ELSE FirstIndex(x, s, i + 1)

\* list.remove(x): drops the first occurrence only
ListRemove(s, x) ==
  LET k == FirstIndex(x, s, 1)
  IN  SubSeq(s, 1, k - 1) \o SubSeq(s, k + 1, Len(s))

RECURSIVE SeqsUpTo(_, _)
SeqsUpTo(S, n) ==
  IF n = 0 THEN {<<>>}
  ELSE LET shorter == SeqsUpTo(S, n - 1)
       IN  shorter \cup {Append(s, x) : s \in {t \in shorter : Len(t) = n - 1}, x \in S}

\* Candidate lists up to renaming of addresses: each address is 1 or follows
\* an earlier occurrence of its predecessor. Repeated lines stay possible.
Canonical(s) ==
  \A i \in 1..Len(s) : \A k \in 1..(s[i] - 1) : \E j \in 1..(i - 1) : s[j] = k

\* ------------------------------------------------------------------- pool
\* probed: the addresses probed so far by the operation at hand
Pool == [working |-> working_proxies, failed |-> failed_proxies, current |-> current_proxy,
         probed |-> <<>>]

SetPool(p) ==
  /\ working_proxies' = p.working
  /\ failed_proxies' = p.failed
  /\ current_proxy' = p.current

\* variant: the loop does not skip the addresses already in failed_proxies
RECURSIVE probe_from_retests_failed(_, _, _, _, _)
probe_from_retests_failed(pool, i, tested, max_test, alive) ==
  IF i > Len(proxies) \/ tested >= max_test THEN pool
  ELSE IF alive[i]
       THEN probe_from_retests_failed([pool EXCEPT !.working = Append(@, proxies[i]),
                                                   !.probed = Append(@, proxies[i])],
                                      i + 1, tested + 1, max_test, alive)
       ELSE probe_from_retests_failed([pool EXCEPT !.failed = @ \cup {proxies[i]},
                                                   !.probed = Append(@, proxies[i])],
                                      i + 1, tested + 1, max_test, alive)

\* variant: a failed probe also takes the address out of working_proxies
RECURSIVE probe_from_revalidates(_, _, _, _, _)
probe_from_revalidates(pool, i, tested, max_test, alive) ==
  IF i > Len(proxies) \/ tested >= max_test THEN pool
  ELSE IF proxies[i] \in pool.failed
       THEN probe_from_revalidates(pool, i + 1, tested, max_test, alive)
  ELSE IF alive[i]
       THEN probe_from_revalidates([pool EXCEPT !.working = Append(@, proxies[i]),
                                                !.probed = Append(@, proxies[i])],
                                   i + 1, tested + 1, max_test, alive)
       ELSE probe_from_revalidates(
              [pool EXCEPT !.working = SelectSeq(@, LAMBDA x : x # proxies[i]),
                           !.failed = @ \cup {proxies[i]},
                           !.probed = Append(@, proxies[i])],
              i + 1, tested + 1, max_test, alive)

\* One pass of the probing loop from candidate i on; alive[i] is what
\* test_proxy answers for the i-th candidate at this call.
RECURSIVE probe_from(_, _, _, _, _)
probe_from(pool, i, tested, max_test, alive) ==
  IF i > Len(proxies) \/ tested >= max_test THEN pool
  ELSE IF proxies[i] \in pool.failed THEN probe_from(pool, i + 1, tested, max_test, alive)
  ELSE IF alive[i]
       THEN probe_from([pool EXCEPT !.working = Append(@, proxies[i]),
                                    !.probed = Append(@, proxies[i])],
                       i + 1, tested + 1, max_test, alive)
       ELSE probe_from([pool EXCEPT !.failed = @ \cup {proxies[i]},
                                    !.probed = Append(@, proxies[i])],
                       i + 1, tested + 1, max_test, alive)

find_working_proxies(pool, max_test, alive) == probe_from(pool, 1, 0, max_test, alive)

mark_proxy_as_failed(pool, proxy) ==
  IF InList(proxy, pool.working)
  THEN [pool EXCEPT !.working = ListRemove(@, proxy), !.failed = @ \cup {proxy}]
  ELSE pool

\* variant: get_proxy warms up on every call
WarmedAlways(pool, alive) == find_working_proxies(pool, FallbackBudget, alive)

\* The pool after the warm-up get_proxy makes when nothing is working.
Warmed(pool, alive) ==
  IF pool.working = <<>> THEN find_working_proxies(pool, FallbackBudget, alive) ELSE pool

\* random.choice is the index `pick`.
get_proxy(pool, alive, pick) ==
  LET w == Warmed(pool, alive)
  IN  IF w.working = <<>>
      THEN [pool |-> w, ret |-> None]
      ELSE [pool |-> [w EXCEPT !.current = w.working[pick]], ret |-> w.working[pick]]

Picks(pool, alive) ==
  LET w == Warmed(pool, alive)
  IN  IF w.working = <<>> THEN {1} ELSE 1..Len(w.working)

Probes == [1..Len(proxies) -> BOOLEAN]

\* ---------------------------------------------------------------- initial
NoCall == [op |-> "none", arg |-> None, ret |-> None]
NoFetch == [proxy |-> None, kind |-> "none", marked |-> None]

ClearDownload ==
  /\ attempt' = 0
  /\ proxy_attempt' = 0
  /\ dl_proxies' = None
  /\ result' = "none"
  /\ fetches' = 0
  /\ last' = NoFetch
  /\ waits' = <<>>
  /\ empty_at_start' = FALSE
  /\ tries' = 0
  /\ UNCHANGED session

\* ProxyManager.__init__ but for the candidate list, and the rest of the
\* process before anything has run
Constructed ==
  /\ working_proxies = <<>>
  /\ failed_proxies = {}
  /\ current_proxy = None
  /\ USE_PROXY \in BOOLEAN
  /\ reachable \in BOOLEAN
  /\ api = NoCall
  /\ attempt = 0
  /\ proxy_attempt = 0
  /\ dl_proxies = None
  /\ result = "none"
  /\ fetches = 0
  /\ last = NoFetch
  /\ waits = <<>>
  /\ empty_at_start = FALSE
  /\ probed = <<>>
  /\ tries = 0
  /\ session = [open |-> 0, cur |-> FALSE]
  /\ db = <<>>
  /\ episode_id = 0
  /\ audio_file = "none"
  /\ transcript = "none"
  /\ summary = "none"
  /\ reasons = <<>>
  /\ outcome = "none"
  /\ tried = <<>>
  /\ rpc = [t \in Threads |-> "idle"]
  /\ repisode = [t \in Threads |-> 0]
  /\ tpc = [t \in Threads |-> "start"]
  /\ tproxy = [t \in Threads |-> None]
  /\ tattempt = [t \in Threads |-> 0]
  /\ targ = [t \in Threads |-> None]

Closed == [state |-> "closed", lines |-> <<>>]

\* the process once proxy_manager is constructed: the candidates are loaded
Init ==
  /\ proxies \in {s \in SeqsUpTo(Proxy, MaxCandidates) : Canonical(s)}
  /\ proxy_file = Closed
  /\ pc = "idle"
  /\ Constructed

\* ------------------------------------------------- direct calls on the pool
WarmUp ==
  /\ UNCHANGED <<proxy_file, pipevars, threadvars>>
  /\ pc = "idle"
  /\ \E n \in (0..MaxTest) \cup {MAX_PROXIES_TO_TEST}, alive \in Probes :
       LET p == find_working_proxies(Pool, n, alive)
       IN  /\ Len(p.working) <= MaxWorking
           /\ SetPool(p)
           /\ probed' = p.probed
           /\ api' = [op |-> "warmUp", arg |-> n, ret |-> None]
  /\ pc' = "called"
  /\ UNCHANGED <<proxies, USE_PROXY, reachable, dlvars>>

Acquire ==
  /\ UNCHANGED <<proxy_file, pipevars, threadvars>>
  /\ pc = "idle"
  /\ \E alive \in Probes :
       \E pick \in Picks(Pool, alive) :
         LET r == get_proxy(Pool, alive, pick)
         IN  /\ SetPool(r.pool)
             /\ probed' = r.pool.probed
             /\ api' = [op |-> "acquire", arg |-> None, ret |-> r.ret]
  /\ pc' = "called"
  /\ UNCHANGED <<proxies, USE_PROXY, reachable, dlvars>>

ReportFailure ==
  /\ UNCHANGED <<proxy_file, pipevars, threadvars>>
  /\ pc = "idle"
  /\ \E p \in Proxy :
       /\ SetPool(mark_proxy_as_failed(Pool, p))
       /\ probed' = <<>>
       /\ api' = [op |-> "reportFailure", arg |-> p, ret |-> None]
  /\ pc' = "called"
  /\ UNCHANGED <<proxies, USE_PROXY, reachable, dlvars>>

Return ==
  /\ UNCHANGED <<proxy_file, pipevars, threadvars>>
  /\ probed' = <<>>
  /\ pc = "called"
  /\ pc' = "idle"
  /\ api' = NoCall
  /\ UNCHANGED <<proxies, poolvars, USE_PROXY, reachable, dlvars>>

\* --------------------------------------------------------------- download
\* session = requests.Session()
new_session(s) == [open |-> s.open + 1, cur |-> TRUE]

\* session.close() on the current session; closing a closed session does nothing
session_close(s) == IF s.cur THEN [open |-> s.open - 1, cur |-> FALSE] ELSE s

\* variant: no finally clause
FinallyMissing(s) == s

\* finally: session.close()
Finally(s) == session_close(s)

StartDownload ==
  /\ UNCHANGED <<proxy_file, pipevars, threadvars>>
  /\ probed' = <<>>
  /\ UNCHANGED <<tries, session>>
  /\ pc = "idle"
  /\ pc' = "inner"
  /\ empty_at_start' = (working_proxies = <<>>)
  /\ UNCHANGED <<proxies, poolvars, USE_PROXY, reachable, api, attempt, proxy_attempt,
                 dl_proxies, result, fetches, last, waits>>

\* variant: a missing proxy is raised as an error instead of being a fallback
AcquireProxyNoneIsError ==
  /\ UNCHANGED <<proxy_file, pipevars, threadvars>>
  /\ pc = "inner"
  /\ tries' = 0
  /\ session' = new_session(session)
  /\ IF USE_PROXY
     THEN \E alive \in Probes :
            \E pick \in Picks(Pool, alive) :
              LET r == get_proxy(Pool, alive, pick)
              IN  /\ SetPool(r.pool)
                  /\ probed' = r.pool.probed
                  /\ dl_proxies' = r.ret
                  /\ pc' = IF r.ret = None THEN "except" ELSE "fetch"
     ELSE /\ dl_proxies' = None
          /\ probed' = <<>>
          /\ pc' = "fetch"
          /\ UNCHANGED poolvars
  /\ UNCHANGED <<proxies, USE_PROXY, reachable, api, attempt, proxy_attempt, result,
                 fetches, last, waits, empty_at_start>>

\* download_episode, top of one inner iteration: proxies = get_proxy() or None
AcquireProxy ==
  /\ UNCHANGED <<proxy_file, pipevars, threadvars>>
  /\ pc = "inner"
  /\ tries' = 0
  /\ session' = new_session(session)
  /\ IF USE_PROXY
     THEN \E alive \in Probes :
            \E pick \in Picks(Pool, alive) :
              LET r == get_proxy(Pool, alive, pick)
              IN  /\ SetPool(r.pool)
                  /\ probed' = r.pool.probed
                  /\ dl_proxies' = r.ret
     ELSE /\ dl_proxies' = None
          /\ probed' = <<>>
          /\ UNCHANGED poolvars
  /\ pc' = "fetch"
  /\ UNCHANGED <<proxies, USE_PROXY, reachable, api, attempt, proxy_attempt, result,
                 fetches, last, waits, empty_at_start>>

\* marked: the address handed to mark_proxy_as_failed by the handler, or None
Fetched(kind, marked) ==
  /\ fetches' = fetches + 1
  /\ last' = [proxy |-> dl_proxies, kind |-> kind, marked |-> marked]

\* whether a fetch with this outcome can happen in this environment
Possible(kind) ==
  /\ kind = "Success" \/ ~(reachable /\ dl_proxies = None)
  /\ kind = "RetryError" => tries = RetryTotal

\* variant: a retried response is handled as a failed proxy attempt
TransportRetryRotates ==
  /\ UNCHANGED <<proxy_file, pipevars, threadvars>>
  /\ pc = "fetch"
  /\ tries < RetryTotal
  /\ ~(reachable /\ dl_proxies = None)
  /\ tries' = 0
  /\ probed' = <<>>
  /\ session' = Finally(session)
  /\ Fetched("RetryError", current_proxy)
  /\ IF dl_proxies # None
     THEN SetPool(mark_proxy_as_failed(Pool, current_proxy))
     ELSE UNCHANGED poolvars
  /\ proxy_attempt' = proxy_attempt + 1
  /\ pc' = IF proxy_attempt + 1 < max_proxy_retries THEN "inner" ELSE "except"
  /\ UNCHANGED <<proxies, USE_PROXY, reachable, api, attempt, dl_proxies, result, waits,
                 empty_at_start>>

\* the adapter gets a 429/500/502/503/504 response (or a connection fault it
\* retries) with retries left: it backs off and sends the request again,
\* inside the same session.get
TransportRetry ==
  /\ UNCHANGED <<proxy_file, pipevars, threadvars>>
  /\ pc = "fetch"
  /\ tries < RetryTotal
  /\ ~(reachable /\ dl_proxies = None)
  /\ tries' = tries + 1
  /\ probed' = <<>>
  /\ UNCHANGED <<proxies, poolvars, USE_PROXY, reachable, pc, api, attempt, proxy_attempt,
                 dl_proxies, result, fetches, last, waits, empty_at_start, session>>

\* variant: the success path does not return and the loop goes on
FetchSuccessNoReturn ==
  /\ UNCHANGED <<proxy_file, pipevars, threadvars>>
  /\ probed' = <<>>
  /\ session' = Finally(session)
  /\ UNCHANGED tries
  /\ pc = "fetch"
  /\ Fetched("Success", None)
  /\ proxy_attempt' = proxy_attempt + 1
  /\ pc' = IF proxy_attempt + 1 < max_proxy_retries THEN "inner" ELSE "except"
  /\ UNCHANGED <<proxies, poolvars, USE_PROXY, reachable, api, attempt, result,
                 dl_proxies, waits, empty_at_start>>

\* the try body succeeded: the file is written and its name returned
FetchSuccess ==
  /\ UNCHANGED <<proxy_file, pipevars, threadvars>>
  /\ probed' = <<>>
  /\ session' = Finally(session_close(session))
  /\ UNCHANGED tries
  /\ pc = "fetch"
  /\ Fetched("Success", None)
  /\ result' = "path"
  /\ pc' = "done"
  /\ UNCHANGED <<proxies, poolvars, USE_PROXY, reachable, api, attempt, proxy_attempt,
                 dl_proxies, waits, empty_at_start>>

\* variant: the handler goes on to the next attempt even when no proxy was used
ShouldSwitchWithoutProxy(prx, pa) == USE_PROXY /\ pa < max_proxy_retries - 1

\* the condition of the `if` in the transient handler
ShouldSwitch(prx, pa) == USE_PROXY /\ prx # None /\ pa < max_proxy_retries - 1

\* except (Timeout, ConnectionError, ProxyError)
FetchTransient ==
  /\ UNCHANGED <<proxy_file, pipevars, threadvars>>
  /\ probed' = <<>>
  /\ session' = Finally(session)
  /\ tries' = 0
  /\ pc = "fetch"
  /\ \E kind \in TransientKinds :
       /\ Possible(kind)
       /\ Fetched(kind, IF ShouldSwitch(dl_proxies, proxy_attempt) THEN current_proxy ELSE None)
  /\ IF ShouldSwitch(dl_proxies, proxy_attempt)
     THEN /\ IF current_proxy # None
             THEN SetPool(mark_proxy_as_failed(Pool, current_proxy))
             ELSE UNCHANGED poolvars
          /\ proxy_attempt' = proxy_attempt + 1
          /\ pc' = IF proxy_attempt + 1 < max_proxy_retries THEN "inner" ELSE "except"
     ELSE /\ pc' = "except"
          /\ UNCHANGED <<poolvars, proxy_attempt>>
  /\ UNCHANGED <<proxies, USE_PROXY, reachable, api, attempt, dl_proxies, result, waits,
                 empty_at_start>>

\* variant: any failure blames the proxy in use
FetchOtherBlamesProxy ==
  /\ UNCHANGED <<proxy_file, pipevars, threadvars>>
  /\ probed' = <<>>
  /\ session' = Finally(session)
  /\ tries' = 0
  /\ pc = "fetch"
  /\ \E kind \in OtherKinds :
       /\ Possible(kind)
       /\ Fetched(kind, IF dl_proxies # None THEN current_proxy ELSE None)
  /\ IF dl_proxies # None
     THEN SetPool(mark_proxy_as_failed(Pool, current_proxy))
     ELSE UNCHANGED poolvars
  /\ pc' = "except"
  /\ UNCHANGED <<proxies, USE_PROXY, reachable, api, attempt, proxy_attempt,
                 dl_proxies, result, waits, empty_at_start>>

\* except Exception: logged and re-raised (HTTPStatusError, RetryError, anything else)
FetchOther ==
  /\ UNCHANGED <<proxy_file, pipevars, threadvars>>
  /\ probed' = <<>>
  /\ session' = Finally(session)
  /\ tries' = 0
  /\ pc = "fetch"
  /\ \E kind \in OtherKinds :
       /\ Possible(kind)
       /\ Fetched(kind, None)
  /\ pc' = "except"
  /\ UNCHANGED <<proxies, poolvars, USE_PROXY, reachable, api, attempt, proxy_attempt,
                 dl_proxies, result, waits, empty_at_start>>

\* download_with_retry: the except clause and the step of the for loop
\* variant: the handler sleeps after every failed iteration
WillWaitAlways(a) == TRUE

\* `if attempt < max_retries - 1` in the except clause
WillWait(a) == a < max_retries - 1

\* variant: the loop bound is off by one
HasNextOffByOne(a) == a + 1 <= max_retries

\* range(max_retries): whether the for loop has another iteration
HasNext(a) == a + 1 < max_retries

RetryHandler ==
  /\ UNCHANGED <<proxy_file, pipevars, threadvars>>
  /\ probed' = <<>>
  /\ UNCHANGED <<tries, session>>
  /\ pc = "except"
  /\ waits' = IF WillWait(attempt) THEN Append(waits, (attempt + 1) * BackoffUnit) ELSE waits
  /\ IF HasNext(attempt)
     THEN /\ attempt' = attempt + 1
          /\ proxy_attempt' = 0
          /\ pc' = "inner"
          /\ UNCHANGED result
     ELSE /\ result' = "failed"
          /\ pc' = "done"
          /\ UNCHANGED <<attempt, proxy_attempt>>
  /\ UNCHANGED <<proxies, poolvars, USE_PROXY, reachable, api, dl_proxies, fetches,
                 last, empty_at_start>>

Reset ==
  /\ UNCHANGED <<proxy_file, pipevars, threadvars>>
  /\ probed' = <<>>
  /\ pc = "done"
  /\ pc' = "idle"
  /\ ClearDownload
  /\ UNCHANGED <<proxies, poolvars, USE_PROXY, reachable, api>>

Next ==
  \/ WarmUp
  \/ Acquire
  \/ ReportFailure
  \/ Return
  \/ StartDownload
  \/ AcquireProxy
  \/ TransportRetry
  \/ FetchSuccess
  \/ FetchTransient
  \/ FetchOther
  \/ RetryHandler
  \/ Reset

Spec == Init /\ [][Next]_vars

\* --------------------------------------------------------------- pipeline
\* values a collaborator hands back: None, an empty string, a non-empty string
Values == {"none", "empty", "text"}

\* variant: every value passes the check
TruthyAlways(x) == TRUE

\* `if not x` is false
Truthy(x) == x = "text"

AudioUrls == {"http", "other"}

\* variant: the query has no WHERE clause
get_random_any(d) == DOMAIN d

\* SELECT * FROM episodes WHERE published = 0 ORDER BY RANDOM() LIMIT 1:
\* the ids the query can return (none when the set is empty)
get_random(d) == {i \in DOMAIN d : ~d[i].published}

\* variant: the UPDATE has no WHERE clause
mark_as_used_all(d, id) ==
  [i \in DOMAIN d |-> [d[i] EXCEPT !.published = TRUE]]

\* UPDATE episodes SET published = 1 WHERE id = ?
mark_as_used(d, id) ==
  [i \in DOMAIN d |-> IF i = id THEN [d[i] EXCEPT !.published = TRUE] ELSE d[i]]

\* INSERT INTO episodes (..., published, audio_url, ...) with published=False
save_episode(d, url) == Append(d, [published |-> FALSE, audio_url |-> url])

\* variant: a failed episode is taken out of the selection
mark_episode_as_failed_retires(d, id, reason) == mark_as_used(d, id)

\* logs the reason, touches no storage
mark_episode_as_failed(d, id, reason) == d

\* what a call of a provider can do: hand back a value, or raise
Returns == Values \cup {"raise"}

Called(provider, ret) == [provider |-> provider, ret |-> ret]

\* variant: no second provider
create_summary_primary_only(groq, huggingface) ==
  [summary |-> groq, tried |-> <<Called("groq", groq)>>]

\* summarize_groq, then summarize_huggingface when the first gave nothing; a
\* raise of either provider leaves create_summary at once (summary "raise")
create_summary(groq, huggingface) ==
  IF groq = "raise"
  THEN [summary |-> "raise", tried |-> <<Called("groq", groq)>>]
  ELSE IF ~Truthy(groq)
  THEN [summary |-> huggingface,
        tried |-> <<Called("groq", groq), Called("huggingface", huggingface)>>]
  ELSE [summary |-> groq, tried |-> <<Called("groq", groq)>>]

\* variant: no except clause, the exception leaves main_pipeline
RaisedPropagates ==
  /\ outcome' = "exception"
  /\ pc' = "crashed"
  /\ UNCHANGED <<db, reasons>>

\* the run ends in `except Exception`
Raised ==
  /\ outcome' = "exception"
  /\ pc' = "idle"
  /\ UNCHANGED <<db, reasons>>

\* mark_episode_as_failed(episode_id, reason); return
Failed(reason) ==
  /\ db' = mark_episode_as_failed(db, episode_id, reason)
  /\ reasons' = Append(reasons, reason)
  /\ outcome' = "failed"
  /\ pc' = "idle"

\* main_pipeline up to the call of download_with_retry
PipeSelect ==
  /\ UNCHANGED <<proxy_file, threadvars>>
  /\ pc = "idle"
  /\ probed' = <<>>
  /\ audio_file' = "none"
  /\ transcript' = "none"
  /\ summary' = "none"
  /\ reasons' = <<>>
  /\ tried' = <<>>
  /\ \/ /\ episode_id' = 0                       \* DB.get_random raises
        /\ outcome' = "exception"
        /\ UNCHANGED <<pc, empty_at_start>>
     \/ /\ get_random(db) = {}
        /\ episode_id' = 0
        /\ outcome' = "no_episodes"
        /\ UNCHANGED <<pc, empty_at_start>>
     \/ \E id \in get_random(db) :
          /\ episode_id' = id
          /\ IF db[id].audio_url = "http"
             THEN /\ outcome' = "running"
                  /\ pc' = "inner"
                  /\ empty_at_start' = (working_proxies = <<>>)
             ELSE /\ outcome' = "invalid"
                  /\ UNCHANGED <<pc, empty_at_start>>
  /\ UNCHANGED <<proxies, poolvars, USE_PROXY, reachable, api, attempt, proxy_attempt,
                 dl_proxies, result, fetches, last, waits, tries, session, db>>

\* a variant that starts the download again when download_with_retry gave None
PipeAfterDownloadRetries ==
  /\ UNCHANGED <<proxy_file, threadvars>>
  /\ pc = "done"
  /\ outcome = "running"
  /\ probed' = <<>>
  /\ ClearDownload
  /\ IF result = "path"
     THEN /\ audio_file' = "path"
          /\ pc' = "transcribe"
     ELSE /\ audio_file' = "none"
          /\ pc' = "inner"
  /\ UNCHANGED <<db, reasons, outcome>>
  /\ UNCHANGED <<proxies, poolvars, USE_PROXY, reachable, api, episode_id, transcript,
                 summary, tried>>

\* download_with_retry has returned
PipeAfterDownload ==
  /\ UNCHANGED <<proxy_file, threadvars>>
  /\ pc = "done"
  /\ outcome = "running"
  /\ probed' = <<>>
  /\ ClearDownload
  /\ IF result = "path"
     THEN /\ audio_file' = "path"
          /\ pc' = "transcribe"
          /\ UNCHANGED <<db, reasons, outcome>>
     ELSE /\ audio_file' = "none"
          /\ Failed("download_timeout")
  /\ UNCHANGED <<proxies, poolvars, USE_PROXY, reachable, api, episode_id, transcript,
                 summary, tried>>

\* transcript = transcribe_audio(audio_file) and the check of it
PipeTranscribe ==
  /\ UNCHANGED <<proxy_file, threadvars>>
  /\ pc = "transcribe"
  /\ probed' = <<>>
  /\ \/ /\ Raised
        /\ UNCHANGED transcript
     \/ \E t \in {"empty", "text"} :
          /\ transcript' = t
          /\ IF Truthy(t)
             THEN /\ pc' = "summarize"
                  /\ UNCHANGED <<db, reasons, outcome>>
             ELSE Failed("transcription_failed")
  /\ UNCHANGED <<proxies, poolvars, USE_PROXY, reachable, api, dlvars, episode_id,
                 audio_file, summary, tried>>

\* summary = create_summary(transcript, title) and the check of it
PipeSummarize ==
  /\ UNCHANGED <<proxy_file, threadvars>>
  /\ pc = "summarize"
  /\ probed' = <<>>
  /\ \E groq \in Returns, huggingface \in Returns :
       LET r == create_summary(groq, huggingface)
       IN  /\ tried' = r.tried
           /\ IF r.summary = "raise"
              THEN /\ Raised
                   /\ UNCHANGED summary
              ELSE /\ summary' = r.summary
                   /\ IF Truthy(r.summary)
                      THEN /\ pc' = "publish"
                           /\ UNCHANGED <<db, reasons, outcome>>
                      ELSE Failed("summarization_failed")
  /\ UNCHANGED <<proxies, poolvars, USE_PROXY, reachable, api, dlvars, episode_id,
                 audio_file, transcript>>

\* DB.mark_as_used(episode_id) and the return of the result
PipePublish ==
  /\ UNCHANGED <<proxy_file, threadvars>>
  /\ pc = "publish"
  /\ probed' = <<>>
  /\ \/ Raised
     \/ /\ db' = mark_as_used(db, episode_id)
        /\ outcome' = "published"
        /\ pc' = "idle"
        /\ UNCHANGED reasons
  /\ UNCHANGED <<proxies, poolvars, USE_PROXY, reachable, api, dlvars, episode_id,
                 audio_file, transcript, summary, tried>>

\* fetch_new_episodes saves an episode it has not seen; the fetch job runs on
\* a thread of its own
SaveEpisode ==
  /\ UNCHANGED <<proxy_file, threadvars>>
  /\ Len(db) < MaxEpisodes
  /\ \E url \in AudioUrls : db' = save_episode(db, url)
  /\ UNCHANGED <<proxies, poolvars, USE_PROXY, reachable, pc, api, dlvars, probed,
                 episode_id, audio_file, transcript, summary, reasons, outcome, tried>>

PipeNext ==
  \/ SaveEpisode
  \/ PipeSelect
  \/ AcquireProxy
  \/ TransportRetry
  \/ FetchSuccess
  \/ FetchTransient
  \/ FetchOther
  \/ RetryHandler
  \/ PipeAfterDownload
  \/ PipeTranscribe
  \/ PipeSummarize
  \/ PipePublish

\* the process after start-up, the table still empty
PipeInit == Init /\ Len(proxies) <= MaxPipeCandidates

PipeSpec == PipeInit /\ [][PipeNext]_vars

\* the statements of one run of main_pipeline after the selection: the thread
\* that runs it goes on to the next statement, and each external call (probe,
\* fetch, transcription, summarization, storage) returns or raises
RunStep ==
  \/ AcquireProxy
  \/ TransportRetry
  \/ FetchSuccess
  \/ FetchTransient
  \/ FetchOther
  \/ RetryHandler
  \/ PipeAfterDownload
  \/ PipeTranscribe
  \/ PipeSummarize
  \/ PipePublish

\* fetch_new_episodes saves an episode, the table no longer than MaxFairEpisodes
FairSaveEpisode ==
  /\ Len(db) < MaxFairEpisodes
  /\ SaveEpisode

FairPipeNext ==
  \/ FairSaveEpisode
  \/ PipeSelect
  \/ AcquireProxy
  \/ TransportRetry
  \/ FetchSuccess
  \/ FetchTransient
  \/ FetchOther
  \/ RetryHandler
  \/ PipeAfterDownload
  \/ PipeTranscribe
  \/ PipeSummarize
  \/ PipePublish

\* the pipeline whose running thread is never stopped for ever; when a run
\* starts and when the parser saves an episode is left open
FairPipeSpec == PipeInit /\ [][FairPipeNext]_vars /\ WF_vars(RunStep)

\* -------------------------------------------------------- overlapping runs
\* everything of the process that a run of main_pipeline on another thread
\* is not followed through here
seqvars == <<proxy_file, proxies, poolvars, USE_PROXY, reachable, pc, api, dlvars, probed,
             episode_id, audio_file, transcript, summary, reasons, outcome, tried,
             dthreadvars>>

\* main_pipeline on thread t up to the download: DB.get_random and the checks
\* of the row. The run at start-up is the only one the main thread makes.
RunSelect(t) ==
  /\ rpc[t] = "idle"
  /\ \/ /\ get_random(db) = {}
        /\ rpc' = [rpc EXCEPT ![t] = IF t = "main" THEN "ended" ELSE "idle"]
        /\ repisode' = [repisode EXCEPT ![t] = 0]
     \/ \E id \in get_random(db) :
          /\ repisode' = [repisode EXCEPT ![t] = id]
          /\ rpc' = [rpc EXCEPT ![t] = IF db[id].audio_url = "http" THEN "processing"
                                      ELSE IF t = "main" THEN "ended" ELSE "idle"]
  /\ UNCHANGED <<seqvars, db>>

\* download, transcription and summarization of thread t's episode: either
\* all three give a result or the run ends there
RunProcess(t) ==
  /\ rpc[t] = "processing"
  /\ \E ok \in BOOLEAN :
       rpc' = [rpc EXCEPT ![t] = IF ok THEN "publish"
                                 ELSE IF t = "main" THEN "ended" ELSE "idle"]
  /\ UNCHANGED <<seqvars, db, repisode>>

\* DB.mark_as_used(episode_id) on thread t
RunPublish(t) ==
  /\ rpc[t] = "publish"
  /\ db' = mark_as_used(db, repisode[t])
  /\ rpc' = [rpc EXCEPT ![t] = IF t = "main" THEN "ended" ELSE "idle"]
  /\ UNCHANGED <<seqvars, repisode>>

OverlapNext ==
  \/ SaveEpisode
  \/ \E t \in Threads : RunSelect(t)
  \/ \E t \in Threads : RunProcess(t)
  \/ \E t \in Threads : RunPublish(t)

OverlapSpec == Init /\ [][OverlapNext]_vars

\* ----------------------------------------------------- concurrent downloads
\* Two threads run download_episode against the one proxy_manager. The steps
\* are the places where the pool is read or written; a thread can be
\* overtaken between any two of them.
convars == <<proxy_file, proxies, USE_PROXY, reachable, pc, api, dlvars, probed, pipevars,
             rpc, repisode>>

\* get_proxy, line 74: `if not self.working_proxies`
GetCheck(t) ==
  /\ tpc[t] = "start"
  /\ tpc' = [tpc EXCEPT ![t] = IF working_proxies = <<>> THEN "warm" ELSE "choose"]
  /\ UNCHANGED <<convars, poolvars, tproxy, tattempt, targ>>

\* get_proxy, lines 76-78: find_working_proxies(max_test=20), None when
\* Working is still empty after it
GetWarm(t) ==
  /\ tpc[t] = "warm"
  /\ \E alive \in Probes :
       LET w == find_working_proxies(Pool, FallbackBudget, alive)
       IN  /\ SetPool(w)
           /\ IF w.working = <<>>
              THEN /\ tproxy' = [tproxy EXCEPT ![t] = None]
                   /\ tpc' = [tpc EXCEPT ![t] = "fetch"]
              ELSE /\ tpc' = [tpc EXCEPT ![t] = "choose"]
                   /\ UNCHANGED tproxy
  /\ UNCHANGED <<convars, tattempt, targ>>

\* get_proxy, line 81: self.current_proxy = random.choice(self.working_proxies);
\* random.choice raises IndexError on an empty list
GetChoose(t) ==
  /\ tpc[t] = "choose"
  /\ IF working_proxies = <<>>
     THEN /\ tpc' = [tpc EXCEPT ![t] = "IndexError"]
          /\ UNCHANGED <<poolvars, tproxy>>
     ELSE \E pick \in 1..Len(working_proxies) :
            /\ current_proxy' = working_proxies[pick]
            /\ tproxy' = [tproxy EXCEPT ![t] = working_proxies[pick]]
            /\ tpc' = [tpc EXCEPT ![t] = "fetch"]
            /\ UNCHANGED <<working_proxies, failed_proxies>>
  /\ UNCHANGED <<convars, tattempt, targ>>

\* the exception of thread t leaves download_episode; download_with_retry
\* catches it and calls download_episode again
Reraised(t) ==
  /\ tpc' = [tpc EXCEPT ![t] = "start"]
  /\ tattempt' = [tattempt EXCEPT ![t] = 0]

\* session.get of thread t and the handlers, up to the `in` test of
\* mark_proxy_as_failed(proxy_manager.current_proxy) (line 91)
ThreadFetch(t) ==
  /\ tpc[t] = "fetch"
  /\ \/ /\ Reraised(t)                  \* success (return), or a failure that is raised
        /\ UNCHANGED targ
     \/ /\ ~(reachable /\ tproxy[t] = None)
        /\ ShouldSwitch(tproxy[t], tattempt[t])
        /\ tattempt' = [tattempt EXCEPT ![t] = @ + 1]
        /\ IF current_proxy # None /\ InList(current_proxy, working_proxies)
           THEN /\ targ' = [targ EXCEPT ![t] = current_proxy]
                /\ tpc' = [tpc EXCEPT ![t] = "remove"]
           ELSE /\ tpc' = [tpc EXCEPT ![t] = "start"]
                /\ UNCHANGED targ
  /\ UNCHANGED <<convars, poolvars, tproxy>>

\* mark_proxy_as_failed, lines 92-93: self.working_proxies.remove(proxy),
\* which raises ValueError when the address is not in the list, then
\* self.failed_proxies.add(proxy)
MarkRemove(t) ==
  /\ tpc[t] = "remove"
  /\ IF InList(targ[t], working_proxies)
     THEN /\ working_proxies' = ListRemove(working_proxies, targ[t])
          /\ failed_proxies' = failed_proxies \cup {targ[t]}
          /\ tpc' = [tpc EXCEPT ![t] = "start"]
     ELSE /\ tpc' = [tpc EXCEPT ![t] = "ValueError"]
          /\ UNCHANGED <<working_proxies, failed_proxies>>
  /\ UNCHANGED <<convars, current_proxy, tproxy, tattempt, targ>>

\* an IndexError or ValueError of the pool reaches download_with_retry
ThreadRaised(t) ==
  /\ tpc[t] \in {"IndexError", "ValueError"}
  /\ Reraised(t)
  /\ UNCHANGED <<convars, poolvars, tproxy, targ>>

ConcNext ==
  \/ \E t \in Threads : GetCheck(t)
  \/ \E t \in Threads : GetWarm(t)
  \/ \E t \in Threads : GetChoose(t)
  \/ \E t \in Threads : ThreadFetch(t)
  \/ \E t \in Threads : MarkRemove(t)
  \/ \E t \in Threads : ThreadRaised(t)

\* proxies are in use, the pool is as constructed
ConcInit == Init /\ USE_PROXY /\ Len(proxies) <= MaxPipeCandidates

ConcSpec == ConcInit /\ [][ConcNext]_vars

\* ------------------------------------------------------ loading the file
\* characters of a line: white space, the comment sign, anything else
Chars == {" ", "#", "a"}

Lines == SeqsUpTo(Chars, MaxLineLen)

\* what open(self.proxy_file) can find
Files ==
  {[state |-> "missing", lines |-> <<>>]}
    \cup {[state |-> "unread", lines |-> f] : f \in SeqsUpTo(Lines, MaxLines)}

RECURSIVE lstrip(_)
lstrip(s) == IF s # <<>> /\ Head(s) = " " THEN lstrip(Tail(s)) ELSE s

RECURSIVE rstrip(_)
rstrip(s) == IF s # <<>> /\ s[Len(s)] = " " THEN rstrip(SubSeq(s, 1, Len(s) - 1)) ELSE s

\* str.strip()
strip(s) == rstrip(lstrip(s))

\* [line.strip() for line in f if line.strip()]
RECURSIVE StrippedLines(_)
StrippedLines(f) ==
  IF f = <<>> THEN <<>>
  ELSE IF strip(Head(f)) # <<>> THEN <<strip(Head(f))>> \o StrippedLines(Tail(f))
  ELSE StrippedLines(Tail(f))

\* load_proxies: the new value of self.proxies
load_proxies(f) == IF f.state = "missing" THEN <<>> ELSE StrippedLines(f.lines)

\* ProxyManager.__init__ before its call of load_proxies
LoadInit ==
  /\ proxy_file \in Files
  /\ proxies = <<>>
  /\ pc = "new"
  /\ Constructed

\* self.load_proxies()
LoadProxies ==
  /\ pc = "new"
  /\ proxies' = load_proxies(proxy_file)
  /\ proxy_file' = IF proxy_file.state = "missing" THEN proxy_file ELSE Closed
  /\ pc' = "idle"
  /\ UNCHANGED <<poolvars, USE_PROXY, reachable, api, dlvars, probed, pipevars, threadvars>>

LoadNext ==
  \/ LoadProxies

LoadSpec == LoadInit /\ [][LoadNext]_vars

\* ================================================================= claims

\* C1: after any sequence of warm-ups, acquisitions and failure reports,
\* Working and Failed are disjoint and both hold only candidates.
C1_WorkingFailedDisjointCandidates ==
  /\ Elems(working_proxies) \cap failed_proxies = {}
  /\ Elems(working_proxies) \subseteq Elems(proxies)
  /\ failed_proxies \subseteq Elems(proxies)

\* C2: get_proxy never returns an address that is in Failed when it returns,
\* whether called directly or by a download.
C2_AcquireNeverReturnsFailed ==
  /\ (pc = "called" /\ api.op = "acquire" /\ api.ret # None) => api.ret \notin failed_proxies
  /\ (pc = "fetch" /\ dl_proxies # None) => dl_proxies \notin failed_proxies

\* C3: one download never makes more than max_proxy_retries * max_retries
\* fetch calls; indeed at most max_proxy_retries in each of at most
\* max_retries outer iterations.
C3_FetchBudget ==
  /\ fetches <= max_proxy_retries * max_retries
  /\ attempt < max_retries
  /\ fetches <= max_proxy_retries * (attempt + 1)

\* a download that failed after its last outer iteration, the first of which
\* used its whole inner budget
C3_Witness ==
  /\ pc = "done"
  /\ result = "failed"
  /\ attempt = max_retries - 1
  /\ fetches > max_proxy_retries + 1

\* C4: when the first fetch of a download fails with HTTPStatusError, the
\* download ends there as failed: one fetch in total, no retry.
C4_HttpErrorAbortsDownload ==
  [][(pc = "except" /\ fetches = 1 /\ last.kind = "HTTPStatusError")
       => (pc' = "done" /\ result' = "failed" /\ fetches' = 1)]_vars

\* C5: every fetch through a proxy that fails with Timeout, ConnectionError
\* or ProxyError has that proxy reported, so the proxy is in Failed, also on
\* the last inner attempt.
C5_TransientFailureReportsProxy ==
  (last.kind \in TransientKinds /\ last.proxy # None)
    => (last.marked = last.proxy /\ last.proxy \in failed_proxies)

\* C6: a fetch that fails with HTTPStatusError or an unexpected exception
\* reports no proxy and leaves Working and Failed as they were.
C6_OtherFailureLeavesPool ==
  [][(pc = "fetch" /\ fetches' # fetches /\ last'.kind \in OtherKinds)
       => (last'.marked = None /\ UNCHANGED <<working_proxies, failed_proxies>>)]_vars

\* a fetch through a proxy failed with HTTPStatusError and the proxy is still working
C6_Witness ==
  /\ pc = "except"
  /\ last.kind = "HTTPStatusError"
  /\ last.proxy # None
  /\ InList(last.proxy, working_proxies)
  /\ last.proxy \notin failed_proxies

\* C7 as stated: after a transient failure with inner attempts left the next
\* inner attempt of the same outer iteration follows, with or without a
\* proxy, and a transient failure ends the download only at the last inner
\* attempt of the last outer iteration.
C7_TransientAlwaysRotates ==
  /\ [][(pc = "fetch" /\ fetches' # fetches /\ last'.kind \in TransientKinds
           /\ proxy_attempt < max_proxy_retries - 1)
          => (pc' = "inner" /\ attempt' = attempt /\ proxy_attempt' = proxy_attempt + 1)]_vars
  /\ []((result = "failed" /\ last.kind \in TransientKinds)
          => (attempt = max_retries - 1 /\ proxy_attempt = max_proxy_retries - 1))

\* C7 amended: after a transient failure of a fetch that used a proxy, with
\* inner attempts left, the next inner attempt of the same outer iteration
\* follows; after a transient failure of a fetch made without a proxy the
\* inner loop is left at once; the download fails only when max_retries
\* outer iterations have each ended in an exception.
C7_TransientRotatesWhenProxyUsed ==
  /\ [][(pc = "fetch" /\ fetches' # fetches /\ last'.kind \in TransientKinds /\ dl_proxies # None
           /\ proxy_attempt < max_proxy_retries - 1)
          => (pc' = "inner" /\ attempt' = attempt /\ proxy_attempt' = proxy_attempt + 1)]_vars
  /\ [][(pc = "fetch" /\ fetches' # fetches /\ last'.kind \in TransientKinds /\ dl_proxies = None)
          => (pc' = "except" /\ UNCHANGED <<attempt, proxy_attempt>>)]_vars
  /\ [](result = "failed"
          => (attempt = max_retries - 1 /\ fetches >= max_retries
              /\ Len(waits) = max_retries - 1))

\* in one outer iteration a fetch through a proxy failed and was followed by
\* the next inner attempt, which ran without a proxy, failed and was raised
C7_Witness ==
  /\ pc = "except"
  /\ USE_PROXY
  /\ proxy_attempt = 1
  /\ last.kind \in TransientKinds
  /\ last.proxy = None

\* C8 as stated: a download that starts with Working empty, for a target
\* reachable without a proxy, succeeds.
C8_EmptyWorkingDownloadSucceeds ==
  (pc = "done" /\ empty_at_start /\ reachable) => result = "path"

\* C8 amended: when get_proxy returns none for an attempt and the target is
\* reachable without a proxy, that attempt fetches without a proxy and the
\* download succeeds there.
C8_NoProxyFallbackSucceeds ==
  (pc = "done" /\ reachable /\ dl_proxies = None)
    => (result = "path" /\ last.proxy = None /\ last.kind = "Success")

\* the only candidate failed a fetch, was reported, and the next attempt went
\* without a proxy and succeeded
C8_Witness ==
  /\ pc = "done"
  /\ USE_PROXY
  /\ reachable
  /\ empty_at_start
  /\ dl_proxies = None
  /\ fetches > 1
  /\ result = "path"

\* C9: a successful fetch ends the download with the path; nothing of the
\* pool, the loop counters or the waits changes with it or after it.
C9_SuccessShortCircuits ==
  /\ [][(pc = "fetch" /\ fetches' # fetches /\ last'.kind = "Success")
          => (pc' = "done" /\ result' = "path"
              /\ UNCHANGED <<poolvars, attempt, proxy_attempt, waits>>)]_vars
  /\ [][last.kind = "Success"
          => (pc' = "idle" /\ UNCHANGED poolvars)]_vars

\* a fetch succeeded after an earlier failure, with attempts of both loops left
C9_Witness ==
  /\ pc = "done"
  /\ result = "path"
  /\ last.kind = "Success"
  /\ fetches > 1
  /\ attempt < max_retries - 1
  /\ proxy_attempt < max_proxy_retries - 1

\* C10: after mark_proxy_as_failed(p) on a candidate p, p is in Failed and
\* not in Working, whatever p was before.
C10_ReportedProxyIsFailed ==
  (pc = "called" /\ api.op = "reportFailure" /\ InList(api.arg, proxies))
    => (api.arg \in failed_proxies /\ ~InList(api.arg, working_proxies))

\* number of occurrences of x in the list s
Count(x, s) == Cardinality({i \in 1..Len(s) : s[i] = x})

\* C11: in every reachable pool state, reporting a proxy twice in a row leaves
\* the pool as reporting it once does.
C11_ReportFailureIdempotent ==
  \A p \in Proxy :
    mark_proxy_as_failed(mark_proxy_as_failed(Pool, p), p) = mark_proxy_as_failed(Pool, p)

\* C12: an address in Failed stays in Failed, gains no entry in Working and is
\* not probed, whatever step is taken.
C12_FailedNeverRestored ==
  [][\A p \in failed_proxies :
       /\ p \in failed_proxies'
       /\ Count(p, working_proxies') <= Count(p, working_proxies)
       /\ ~InList(p, probed')]_vars

\* a budget-20 warm-up probed some candidate and passed over one that had failed before
C12_Witness ==
  /\ pc = "called"
  /\ api.op = "warmUp"
  /\ api.arg = MAX_PROXIES_TO_TEST
  /\ probed # <<>>
  /\ \E p \in failed_proxies : InList(p, proxies) /\ ~InList(p, probed)

\* C13: an entry of Working disappears only in a step that reports that very
\* address as failed; warm-ups and acquisitions remove nothing.
C13_WorkingUntilReported ==
  [][\A p \in Proxy :
       Count(p, working_proxies') < Count(p, working_proxies)
         => \/ (pc = "idle" /\ api'.op = "reportFailure" /\ api'.arg = p)
            \/ (pc = "fetch" /\ last'.marked = p)]_vars

\* a direct warm-up probed candidates while entries found earlier stayed in Working
C13_Witness ==
  /\ pc = "called"
  /\ api.op = "warmUp"
  /\ probed # <<>>
  /\ Len(working_proxies) > Len(probed)

\* C14: a direct warm-up neither probes nor reclassifies an address that is
\* already in Working or in Failed.
C14_WarmUpSkipsClassified ==
  [][(pc = "idle" /\ api'.op = "warmUp")
       => \A p \in Elems(working_proxies) \cup failed_proxies :
            /\ ~InList(p, probed')
            /\ Count(p, working_proxies') = Count(p, working_proxies)
            /\ (p \in failed_proxies' <=> p \in failed_proxies)]_vars

\* the candidates in neither Working nor Failed, in list order
UntestedCandidates ==
  SelectSeq(proxies, LAMBDA x : x \notin Elems(working_proxies) \cup failed_proxies)

\* a list without its repeated entries, first occurrences kept in order
RECURSIVE Dedup(_)
Dedup(s) ==
  IF s = <<>> THEN <<>>
  ELSE LET front == Dedup(SubSeq(s, 1, Len(s) - 1))
       IN  IF InList(s[Len(s)], front) THEN front ELSE Append(front, s[Len(s)])

Least(a, b) == IF a < b THEN a ELSE b

\* C15: warmUp(n) probes min(n, number of untested candidates) proxies (a
\* repeated line counted once or each time), untested ones only and in list
\* order, and each probed address ends up in Working or in Failed.
C15_WarmUpProbesUntested ==
  [][(pc = "idle" /\ api'.op = "warmUp")
       => /\ Len(probed') >= Least(api'.arg, Len(Dedup(UntestedCandidates)))
          /\ Len(probed') <= Least(api'.arg, Len(UntestedCandidates))
          /\ Dedup(probed') = SubSeq(Dedup(UntestedCandidates), 1, Len(Dedup(probed')))
          /\ \A p \in Elems(probed') : InList(p, working_proxies') \/ p \in failed_proxies']_vars

\* C16: get_proxy warms up only when Working is empty on entry, once and
\* within the fallback budget; it returns none exactly when Working is still
\* empty, else an entry of Working, and changes nothing but what the warm-up did.
C16_AcquireWarmsOnlyWhenEmpty ==
  [][((pc = "idle" /\ api'.op = "acquire") \/ (pc = "inner" /\ USE_PROXY))
       => LET ret == IF pc = "idle" THEN api'.ret ELSE dl_proxies'
          IN  /\ working_proxies # <<>>
                   => (probed' = <<>> /\ working_proxies' = working_proxies
                       /\ failed_proxies' = failed_proxies)
              /\ working_proxies = <<>>
                   => /\ Len(probed') <= Len(proxies)
                      /\ Len(probed') <= FallbackBudget
                      /\ (Len(proxies) <= FallbackBudget /\ Elems(proxies) \ failed_proxies # {})
                           => probed' # <<>>
                      /\ failed_proxies \subseteq failed_proxies'
                      /\ Elems(working_proxies') \cup (failed_proxies' \ failed_proxies)
                           = Elems(probed')
              /\ ret = None <=> working_proxies' = <<>>
              /\ ret # None => (InList(ret, working_proxies') /\ current_proxy' = ret)]_vars

\* a direct get_proxy found Working empty, warmed up and returned a proxy it found
C16_Witness ==
  /\ pc = "called"
  /\ api.op = "acquire"
  /\ api.ret # None
  /\ probed # <<>>
  /\ failed_proxies # {}

\* C17: transport retry is a layer apart from proxy rotation. A response the
\* adapter retries keeps the fetch going with the same proxy: no outcome is
\* recorded, no proxy is acquired or reported, the inner attempt number stays.
\* A fetch ends with exactly one recorded outcome; the retries surface as a
\* failure only when all RetryTotal of them are used; a fetch that succeeds,
\* after retries or not, returns the file and reports no proxy.
C17_TransportRetrySeparate ==
  [][ pc = "fetch" =>
        /\ pc' = "fetch" =>
             /\ tries' = tries + 1
             /\ tries' <= RetryTotal
             /\ UNCHANGED <<poolvars, dl_proxies, proxy_attempt, fetches, last, session>>
        /\ pc' # "fetch" =>
             /\ fetches' = fetches + 1
             /\ last'.kind = "RetryError" => tries = RetryTotal
             /\ poolvars' # poolvars => last'.kind \in TransientKinds
             /\ last'.kind = "Success" =>
                  /\ pc' = "done"
                  /\ result' = "path"
                  /\ last'.marked = None
                  /\ UNCHANGED <<poolvars, dl_proxies, proxy_attempt>>
    ]_vars

\* 503, 503, then 200 through a proxy: one fetch, first inner attempt, nothing reported
C17_Witness ==
  /\ pc = "done"
  /\ result = "path"
  /\ tries = RetryTotal
  /\ dl_proxies # None
  /\ fetches = 1
  /\ proxy_attempt = 0
  /\ failed_proxies = {}
  /\ InList(dl_proxies, working_proxies)

\* C18: every session a fetch attempt opens is closed before the attempt ends.
\* A session is open only while its own fetch is under way, one at a time, and
\* none is open once download_episode has returned or raised.
C18_SessionsClosed ==
  /\ session.open \in {0, 1}
  /\ session.open = 1 <=> session.cur
  /\ session.cur => pc = "fetch"

\* a transient failure was followed by the next inner attempt, and the session
\* of the failed attempt is closed
C18_Witness ==
  /\ pc = "inner"
  /\ proxy_attempt > 0
  /\ last.kind \in TransientKinds
  /\ session.open = 0

\* C19: in a pipeline run the stages come only in the order download,
\* transcription, summarization, publication. Transcription starts only from a
\* download that returned a file, summarization only from a non-empty
\* transcript, publication only from a non-empty summary; and a published
\* flag changes only by DB.mark_as_used on the selected episode, after all
\* three stages have succeeded.
C19_StagesInOrder ==
  [][ /\ pc' = "transcribe" /\ pc # "transcribe" =>
           pc = "done" /\ result = "path" /\ audio_file' = "path"
      /\ pc' = "summarize" /\ pc # "summarize" =>
           pc = "transcribe" /\ audio_file = "path" /\ transcript' = "text"
      /\ pc' = "publish" /\ pc # "publish" =>
           pc = "summarize" /\ audio_file = "path" /\ transcript = "text" /\ summary' = "text"
      /\ (\E i \in DOMAIN db : db'[i].published # db[i].published) =>
           /\ pc = "publish"
           /\ audio_file = "path"
           /\ transcript = "text"
           /\ summary = "text"
           /\ db' = mark_as_used(db, episode_id)
    ]_vars

\* a run went through all four stages and published its episode
C19_Witness ==
  /\ pc = "idle"
  /\ outcome = "published"
  /\ episode_id \in DOMAIN db
  /\ db[episode_id].published
  /\ audio_file = "path"
  /\ transcript = "text"
  /\ summary = "text"

\* C20: a run that ends in failure (download, transcription, summarization or
\* an exception) leaves the table as it was: no step of such a run changes a
\* published flag, and when the run has ended its episode is unpublished and
\* among the rows DB.get_random can return to the next run.
C20_FailureLeavesStorage ==
  [][ /\ outcome = "running" /\ outcome' # "published" =>
           \A i \in DOMAIN db : db'[i] = db[i]
      /\ outcome' \in {"failed", "exception"} /\ episode_id' # 0 =>
           /\ ~db'[episode_id'].published
           /\ episode_id' \in get_random(db')
    ]_vars

\* a run failed at transcription and its episode can be selected again
C20_Witness ==
  /\ pc = "idle"
  /\ outcome = "failed"
  /\ reasons = <<"transcription_failed">>
  /\ audio_file = "path"
  /\ episode_id \in get_random(db)

\* C21: a run that ends as published has set the flag of its episode, and no
\* run selects a row whose flag is set: DB.get_random returns only rows with
\* published = 0, and the row a run works on stays unpublished until that
\* run publishes it.
C21_PublishedNeverSelected ==
  /\ [](get_random(db) \subseteq {i \in DOMAIN db : ~db[i].published})
  /\ [](outcome = "published" => db[episode_id].published)
  /\ [](outcome = "running" => ~db[episode_id].published)
  /\ [][pc = "idle" /\ db' = db /\ outcome' \in {"running", "invalid"}
          => ~db[episode_id'].published]_vars

\* a run is under way on another row after an earlier run published one
C21_Witness ==
  /\ outcome = "running"
  /\ pc = "fetch"
  /\ \E i \in DOMAIN db : db[i].published /\ i # episode_id

\* the reason the claim names for the stage at which a run stopped
StageReason ==
  IF audio_file # "path" THEN "download_exhausted"
  ELSE IF ~Truthy(transcript) THEN "transcription_failed"
  ELSE "summarization_failed"

\* C22: every run that selected an episode and ended without publishing it
\* has recorded exactly one failure reason, the one that names the stage
\* that failed: "download_exhausted", "transcription_failed" or
\* "summarization_failed".
C22_OneReasonNamesStage ==
  (pc = "idle" /\ episode_id # 0 /\ outcome \notin {"none", "published"})
    => (Len(reasons) = 1 /\ reasons[1] = StageReason)

\* C23 as stated: the primary provider is called first; the secondary is
\* called whenever the primary did not produce a non-empty summary, and never
\* when it did; a run fails with "summarization_failed" only after both.
C23_SecondaryWheneverPrimaryGaveNone ==
  tried # <<>> =>
    /\ tried[1].provider = "groq"
    /\ Len(tried) = 2 <=> ~Truthy(tried[1].ret)
    /\ Len(tried) = 2 => tried[2].provider = "huggingface"
    /\ InList("summarization_failed", reasons) => Len(tried) = 2

\* C23 amended: the primary provider is called first; the secondary is called
\* exactly when the primary returned None or an empty summary; when the
\* primary raises, the secondary is not called and the run ends in the
\* except clause without a reason; a run fails with "summarization_failed"
\* only after both providers returned nothing.
C23_SecondaryWhenPrimaryReturnedNone ==
  tried # <<>> =>
    /\ tried[1].provider = "groq"
    /\ Len(tried) = 2 <=> tried[1].ret \in {"none", "empty"}
    /\ Len(tried) = 2 => tried[2].provider = "huggingface"
    /\ tried[1].ret = "raise" => outcome = "exception" /\ reasons = <<>>
    /\ InList("summarization_failed", reasons) =>
         Len(tried) = 2 /\ tried[2].ret \in {"none", "empty"}
    /\ outcome = "running" => summary = tried[Len(tried)].ret

\* the primary gave nothing, the secondary gave the summary, the run published
C23_Witness ==
  /\ outcome = "published"
  /\ Len(tried) = 2
  /\ tried[1].ret = "none"
  /\ tried[2].ret = "text"
  /\ summary = "text"

\* C24: no failure inside a run leaves main_pipeline. An exception of the
\* download ends one outer iteration of download_with_retry and nothing more;
\* a run ends only as published, failed or caught exception, back at the
\* point where the next run can be started, having written at most the row
\* of its own episode.
C24_FailuresStayInRun ==
  /\ [](pc \in {"idle", "inner", "fetch", "except", "done", "transcribe", "summarize",
                "publish"})
  /\ [](pc = "idle" => ENABLED PipeSelect)
  /\ [][pc = "except" => pc' \in {"except", "inner", "done"}]_vars
  /\ [][outcome = "running" /\ outcome' # "running" =>
          /\ pc' = "idle"
          /\ outcome' \in {"published", "failed", "exception"}
          /\ \A i \in DOMAIN db \ {episode_id} : db'[i] = db[i]]_vars

\* a provider raised during summarization; the run ended in the except clause
C24_Witness ==
  /\ pc = "idle"
  /\ outcome = "exception"
  /\ audio_file = "path"
  /\ transcript = "text"
  /\ tried # <<>>
  /\ tried[Len(tried)].ret = "raise"

\* C25: when the run at start-up and a scheduled run overlap, they never both
\* process the same episode row.
C25_RunsNeverShareEpisode ==
  \A t \in Threads, u \in Threads :
    (t # u /\ rpc[t] \in {"processing", "publish"} /\ rpc[u] \in {"processing", "publish"})
      => repisode[t] # repisode[u]

\* C26: with two downloads running against the one pool, every interleaving
\* keeps Working and Failed disjoint, never lets an acquisition choose from an
\* empty Working, and never lets a failure report remove an address that
\* another thread has removed already.
C26_PoolMutationsSynchronized ==
  /\ Elems(working_proxies) \cap failed_proxies = {}
  /\ \A t \in Threads : tpc[t] # "IndexError"
  /\ \A t \in Threads : tpc[t] # "ValueError"

\* a line that holds only a comment
IsComment(line) == strip(line) # <<>> /\ Head(strip(line)) = "#"

\* the lines that are neither blank nor comments, stripped, in file order
RECURSIVE AddressLines(_)
AddressLines(f) ==
  IF f = <<>> THEN <<>>
  ELSE IF strip(Head(f)) # <<>> /\ ~IsComment(Head(f))
       THEN <<strip(Head(f))>> \o AddressLines(Tail(f))
  ELSE AddressLines(Tail(f))

\* C27: loading the proxy file makes the candidates exactly its non-blank,
\* non-comment lines, in file order; a missing file gives no candidates.
C27_LoadSkipsBlankAndComment ==
  [][pc = "new" /\ pc' = "idle" =>
       proxies' = IF proxy_file.state = "missing" THEN <<>>
                  ELSE AddressLines(proxy_file.lines)]_vars

\* C28: within one download, after a fetch through proxy p has failed with a
\* transient kind, no later fetch of that download uses p again. Stated for
\* the fetch that comes next in the download, in the same or in the next
\* outer iteration, which the claim includes.
C28_FailedProxyNotReused ==
  [][(pc = "inner" /\ pc' = "fetch" /\ last.kind \in TransientKinds /\ last.proxy # None)
       => dl_proxies' # last.proxy]_vars

\* C29: the outer loop makes at most max_retries iterations; each starts the
\* inner loop again at its first attempt; after the failed iteration k, when
\* another follows, it waits 10*k seconds, and after the last failed
\* iteration it does not wait.
C29_OuterLoopBackoff ==
  /\ [](attempt < max_retries)
  /\ [](\A k \in 1..Len(waits) : waits[k] = BackoffUnit * k)
  /\ [](pc \in {"inner", "fetch", "except"} => Len(waits) = attempt)
  /\ [](result = "failed" => Len(waits) = max_retries - 1)
  /\ [][pc = "except" /\ pc' = "inner" =>
          /\ attempt' = attempt + 1
          /\ proxy_attempt' = 0
          /\ waits' = Append(waits, BackoffUnit * (attempt + 1))]_vars
  /\ [][pc = "except" /\ pc' = "done" =>
          /\ attempt = max_retries - 1
          /\ waits' = waits]_vars

\* all outer iterations failed: two waits, of 10 and 20 seconds, none after the last
C29_Witness ==
  /\ pc = "done"
  /\ result = "failed"
  /\ attempt = max_retries - 1
  /\ waits = <<BackoffUnit, 2 * BackoffUnit>>

\* C30: the published flag only ever goes from false to true: no step clears
\* it, a row is saved unpublished, and the one step that sets it is
\* DB.mark_as_used at the end of a run that downloaded, transcribed and
\* summarized that very row.
C30_PublishedMonotonic ==
  [][ /\ \A i \in DOMAIN db : db[i].published => db'[i].published
      /\ \A i \in DOMAIN db' \ DOMAIN db : ~db'[i].published
      /\ \A i \in DOMAIN db :
           (~db[i].published /\ db'[i].published) =>
             /\ pc = "publish"
             /\ i = episode_id
             /\ outcome' = "published"
             /\ audio_file = "path" /\ Truthy(transcript) /\ Truthy(summary)
             /\ \A j \in DOMAIN db \ {i} : db'[j] = db[j]
    ]_vars

\* after one row was published, another run failed and a new row was saved:
\* the published row is still published, the others are not
C30_Witness ==
  /\ Len(db) = MaxEpisodes
  /\ db[1].published
  /\ \A i \in 2..Len(db) : ~db[i].published
  /\ outcome = "failed"
  /\ episode_id # 1

\* C31: every run of main_pipeline ends, given that each external call returns
\* or raises: a run that has selected an episode and gone on to the download
\* comes back to the scheduler published, failed or with the exception logged,
\* and meanwhile the counters of the three retry loops stay under their bounds
\* (a run that finds nothing eligible or an invalid url ends in the select
\* step itself).
C31_RunTerminates ==
  /\ [](/\ attempt < max_retries
        /\ proxy_attempt < max_proxy_retries
        /\ tries <= RetryTotal)
  /\ (outcome = "running")
       ~> (pc = "idle" /\ outcome \in {"published", "failed", "exception"})

\* a run used up its downloads, marking a proxy on the way, and ended as failed
C31_Witness ==
  /\ pc = "idle"
  /\ outcome = "failed"
  /\ reasons = <<"download_timeout">>
  /\ USE_PROXY
  /\ failed_proxies # {}
  /\ working_proxies # <<>>

\* C32: the proxy a transient failure reports is the proxy its own fetch went
\* through: when a thread is about to take an address out of Working in
\* mark_proxy_as_failed, that address is the one get_proxy handed to this
\* thread for the attempt -- with one download as with two sharing the pool.
C32_ReportedProxyIsProxyUsed ==
  \A t \in Threads : tpc[t] = "remove" => targ[t] = tproxy[t]

============================================================================
